---- MODULE Spec2Model ----
(***************************************************************************)
(* Verification model of salvo's TLS listeners:                            *)
(*   - crates/core/src/conn/acme/listener.rs    (AcmeListener, Builder)    *)
(*   - crates/core/src/conn/openssl/listener.rs (OpensslListener)          *)
(* The specifications share the variables below:                           *)
(*   Spec      the ACME builder, build(), the renewal task, one issuance   *)
(*             attempt at a time, and handshakes on the built listener;    *)
(*   SpecStore the certificate store at lock granularity (RwLock);         *)
(*   SpecHot   the hot-reloadable acceptor's select loop;                  *)
(*   FairSpec  Spec with the renewal task scheduled fairly.                *)
(***************************************************************************)
EXTENDS Integers, Sequences, FiniteSets, TLC

\* ------------------------------------------------------------------ bounds
\* Number of distinct production identities told apart (ids 1..MaxIdent).
MaxIdent == 2
\* Number of distinct challenge tokens the authority may hand out.
MaxTokens == 2
\* Number of concurrent handshakes reading the store (SpecStore).
MaxReaders == 2
\* Number of successive sets by renewals (SpecStore).
MaxSets == 2
\* Number of items a configuration stream produces (SpecHot).
MaxConfigs == 2
\* Number of inbound connections (SpecHot).
MaxConns == 2
\* OpensslStream values alive at the same time.
MaxStreams == 2

\* --------------------------------------------------------------- constants
NoIdentity == 0
NoToken == 0
Tokens == 1..MaxTokens
Domain == "example.com"
ACME_TLS_ALPN_NAME == "acme-tls/1"

VARIABLES
    \* ---- Builder / AcmeConfigBuilder --------------------------------
    domains,            \* set of configured domains
    challenge_type,     \* "None" | "Http01" | "TlsAlpn01"
    cache_path,         \* BOOLEAN: a cache path is configured
    keys_for_http01,    \* token -> key authorization (shared map)
    router_keys,        \* "none" | "shared": the Http01Handler pushed to the router
    \* ---- Builder::build ---------------------------------------------
    buildPc,            \* position inside build()
    cached_key,         \* "none" | "ecdsa" | "not_ecdsa"
    cached_cert,        \* "none" | "empty" | "fresh" | "expiring"
    listener,           \* "none" | "alive" | "dropped"
    \* ---- ResolveServerCert (the Certificate Store) --------------------
    cert,               \* NoIdentity or the id of the stored identity
    certExpiring,       \* stored identity ends within before_expired
    chainEmpty,         \* stored identity has a chain with no certificate
    acme_keys,          \* domains with a TLS-ALPN-01 challenge certificate
    \* ---- renewal task -----------------------------------------------
    taskPc,             \* "unspawned"|"upgrade"|"check"|"issue"|"sleep"|"done"
    taskStrong,         \* the loop body holds the upgraded Arc
    iss,                \* state of the issuance attempt
    orderToken,         \* token of the current order
    cacheDisk,          \* identity id last persisted to the cache
    \* ---- one handshake on the AcmeListener --------------------------
    hsPc,               \* "none" | "inflight" | "answered" | "done"
    hsAlpn,             \* protocol offered by the client hello, once read
    hsCert,             \* what the resolver answered
    \* ---- history ----------------------------------------------------
    attemptStartCert,   \* store contents when the current attempt began
    lastOutcome,        \* "none" | "running" | "ok" | "failed"
    sleepsSinceDrop,    \* sleeps completed since the last other owner left
    authority,          \* "unknown" | "reachable" | "unreachable" at build
    checked,            \* the loop has made a freshness check
    slept,              \* a sleep has completed since the last check
    \* ---- the store at lock granularity (SpecStore) -------------------
    lock_writer,        \* the RwLock is held for writing
    lock_readers,       \* readers holding the RwLock
    store_chain,        \* certificate chain of the stored identity
    store_key,          \* signing key of the stored identity
    setPc,              \* position of the writer inside set
    getPc,              \* reader -> position inside get
    got_chain,          \* reader -> chain it read
    got_key,            \* reader -> key it read
    begun,              \* history: last set that has begun
    completed,          \* history: last set that has completed
    getLo,              \* history: reader -> `completed` when its get began
    getHi,              \* history: reader -> last set begun before its get ended
    \* ---- OpensslListener (SpecHot) -----------------------------------
    config_kind,        \* "none" | "invalid" | "once" | "stream"
    config_stream,      \* items the stream holds ready, oldest first
    config_sent,        \* number of items the stream has produced
    config_ended,       \* the stream yields None once drained
    current_tls_acceptor, \* NoAcceptor or the id of the applied item
    acceptPc,           \* "idle" | "select" | "panic"
    lastResult,         \* what the last accept call returned
    conns,              \* connection -> its state and what it was given
    lastApplied,        \* history: id of the last valid item consumed
    \* ---- OpensslStream (SpecStream) ----------------------------------
    peer,               \* stream -> the last flight its client has sent: "silent" |
                        \*   "hello" | "bad_hello" | "finished" | "bad_finished"
    inner_stream,       \* stream -> the SslStream: "accepting" | "negotiating" |
                        \*   "established" | "failed"
    is_ready,           \* stream -> OpensslStream::is_ready
    last_poll,          \* stream -> <<call, answer>> of its last poll
    early_ops           \* history: stream -> calls passed on before the handshake was over

acmeVars == <<domains, challenge_type, cache_path, keys_for_http01, router_keys,
              buildPc, cached_key, cached_cert, listener, cert, certExpiring, chainEmpty,
              acme_keys, taskPc, taskStrong, iss, orderToken, cacheDisk,
              hsPc, hsAlpn, hsCert, attemptStartCert, lastOutcome, sleepsSinceDrop,
              authority, checked, slept>>

lockVars == <<lock_writer, lock_readers, store_chain, store_key, setPc, getPc,
              got_chain, got_key, begun, completed, getLo, getHi>>

hotVars == <<config_kind, config_stream, config_sent, config_ended,
             current_tls_acceptor, acceptPc, lastResult, conns, lastApplied>>

streamVars == <<peer, inner_stream, is_ready, last_poll, early_ops>>

vars == <<acmeVars, lockVars, hotVars, streamVars>>

EmptyMap == [t \in {} |-> 0]

InitAcme ==
    /\ domains = {}
    /\ challenge_type = "None"
    /\ cache_path = FALSE
    /\ keys_for_http01 = EmptyMap
    /\ router_keys = "none"
    /\ buildPc = "builder"
    /\ cached_key = "none"
    /\ cached_cert = "none"
    /\ listener = "none"
    /\ cert = NoIdentity
    /\ certExpiring = FALSE
    /\ chainEmpty = FALSE
    /\ acme_keys = {}
    /\ taskPc = "unspawned"
    /\ taskStrong = FALSE
    /\ iss = "Idle"
    /\ orderToken = NoToken
    /\ cacheDisk = NoIdentity
    /\ hsPc = "none"
    /\ hsAlpn = "none"
    /\ hsCert = <<"none">>
    /\ attemptStartCert = NoIdentity
    /\ lastOutcome = "none"
    /\ sleepsSinceDrop = 0
    /\ authority = "unknown"
    /\ checked = FALSE
    /\ slept = FALSE

\* ======================================================================
\* Builder (acme/listener.rs 46-137)
\* ======================================================================
buildVars == <<buildPc, cached_key, cached_cert, listener>>
cfgVars == <<domains, challenge_type, cache_path, keys_for_http01, router_keys>>
storeVars == <<cert, certExpiring, chainEmpty, acme_keys>>
taskVars == <<taskPc, taskStrong, iss, orderToken, cacheDisk>>
hsVars == <<hsPc, hsAlpn, hsCert>>
histVars == <<attemptStartCert, lastOutcome, sleepsSinceDrop, authority,
              checked, slept>>
cfgVarsNoKeys == <<domains, challenge_type, cache_path, router_keys>>

\* Builder::add_domain / Builder::domains
BuilderAddDomain ==
    /\ buildPc = "builder"
    /\ domains' = domains \cup {Domain}
    /\ UNCHANGED <<challenge_type, cache_path, keys_for_http01, router_keys,
                   buildVars, storeVars, taskVars, hsVars, histVars>>
    /\ UNCHANGED <<lockVars, hotVars, streamVars>>

\* Builder::http01_challege: the config gets a token map and the router a
\* handler holding a clone of the same Arc.
BuilderHttp01 ==
    /\ buildPc = "builder"
    /\ challenge_type' = "Http01"
    /\ keys_for_http01' = EmptyMap
    /\ router_keys' = "shared"
    /\ UNCHANGED <<domains, cache_path,
                   buildVars, storeVars, taskVars, hsVars, histVars>>
    /\ UNCHANGED <<lockVars, hotVars, streamVars>>

\* Builder::tls_alpn01_challege
BuilderTlsAlpn01 ==
    /\ buildPc = "builder"
    /\ challenge_type' = "TlsAlpn01"
    /\ UNCHANGED <<domains, cache_path, keys_for_http01, router_keys,
                   buildVars, storeVars, taskVars, hsVars, histVars>>
    /\ UNCHANGED <<lockVars, hotVars, streamVars>>

\* Builder::cache_path
BuilderCachePath ==
    /\ buildPc = "builder"
    /\ cache_path' = TRUE
    /\ UNCHANGED <<domains, challenge_type, keys_for_http01, router_keys,
                   buildVars, storeVars, taskVars, hsVars, histVars>>
    /\ UNCHANGED <<lockVars, hotVars, streamVars>>

\* ======================================================================
\* Builder::build (acme/listener.rs 140-224)
\* ======================================================================
\* AcmeConfigBuilder::build: a non-empty domain set and a selected
\* challenge type are required.
ConfigValid == domains # {} /\ challenge_type # "None"

\* The `?` operator: continue on Ok, return the error from build on Err.
TryIgnoringError(ok, nextPc, err) == nextPc
Try(ok, nextPc, err) == IF ok THEN nextPc ELSE err
BuildErrors == {"err_config", "err_client", "err_cache"}

\* line 145: let acme_config = config_builder.build()?;
BuildConfig ==
    /\ buildPc = "builder"
    /\ buildPc' = Try(ConfigValid, "client", "err_config")
    /\ UNCHANGED <<cached_key, cached_cert, listener,
                   cfgVars, storeVars, taskVars, hsVars, histVars>>
    /\ UNCHANGED <<lockVars, hotVars, streamVars>>

\* lines 147-152: AcmeClient::try_new(...).await?  The directory of the
\* authority is fetched; it may be unreachable.
BuildClient ==
    /\ buildPc = "client"
    /\ \E reachable \in BOOLEAN :
          /\ authority' = IF reachable THEN "reachable" ELSE "unreachable"
          /\ buildPc' = Try(reachable, IF cache_path THEN "read_key" ELSE "finish",
                            "err_client")
    /\ UNCHANGED <<cached_key, cached_cert, listener, attemptStartCert,
                   lastOutcome, sleepsSinceDrop, checked, slept,
                   cfgVars, storeVars, taskVars, hsVars>>
    /\ UNCHANGED <<lockVars, hotVars, streamVars>>

\* What the cache may hold for the private key.
KeyFiles == {"io_error", "absent", "parse_error", "no_key", "not_ecdsa", "ecdsa"}
\* What the cache may hold for the certificate chain.
CertFiles == {"io_error", "absent", "parse_error", "no_cert", "fresh", "expiring"}

\* lines 157-168: read_key(..).await?, then pkcs8_private_keys; a parse
\* error is logged, an empty key list gives None.
ParseCachedKey(file) ==
    CASE file = "ecdsa" -> "ecdsa"
      [] file = "not_ecdsa" -> "not_ecdsa"
      [] OTHER -> "none"

BuildReadKey ==
    /\ buildPc = "read_key"
    /\ \E file \in KeyFiles :
          /\ buildPc' = Try(file # "io_error", "read_cert", "err_cache")
          /\ cached_key' = IF file = "io_error" THEN cached_key ELSE ParseCachedKey(file)
    /\ UNCHANGED <<cached_cert, listener,
                   cfgVars, storeVars, taskVars, hsVars, histVars>>
    /\ UNCHANGED <<lockVars, hotVars, streamVars>>

\* lines 169-180: read_cert(..).await?, then rustls_pemfile::certs.  A
\* parse error is logged; a file with no certificate in it parses to an
\* empty list, which is kept as Some(vec![]).
ParseCachedCert(file) ==
    CASE file = "fresh" -> "fresh"
      [] file = "expiring" -> "expiring"
      [] file = "no_cert" -> "empty"
      [] OTHER -> "none"

BuildReadCert ==
    /\ buildPc = "read_cert"
    /\ \E file \in CertFiles :
          /\ buildPc' = Try(file # "io_error", "finish", "err_cache")
          /\ cached_cert' = IF file = "io_error" THEN cached_cert ELSE ParseCachedCert(file)
    /\ UNCHANGED <<cached_key, listener,
                   cfgVars, storeVars, taskVars, hsVars, histVars>>
    /\ UNCHANGED <<lockVars, hotVars, streamVars>>

\* lines 183-223: create the resolver, seed it from the cache (the unwrap
\* of any_ecdsa_type panics on a key that is not ECDSA), build the server
\* config and the listener, spawn the renewal task, return Ok(listener).
SeedIdentity == 1

\* What will_expired answers for the seeded identity: by the validity of
\* its certificate; for a chain with no certificate there is no validity
\* to go by, and either answer is allowed.
SeedExpiring(cached, any) ==
    IF cached = "empty" THEN any ELSE cached = "expiring"

BuildFinish ==
    /\ buildPc = "finish"
    /\ IF cached_cert # "none" /\ cached_key # "none"
       THEN IF cached_key = "not_ecdsa"
            THEN /\ buildPc' = "panic"
                 /\ UNCHANGED <<listener, cert, certExpiring, chainEmpty, taskPc>>
            ELSE /\ cert' = SeedIdentity
                 /\ chainEmpty' = (cached_cert = "empty")
                 /\ \E expiring \in BOOLEAN :
                       certExpiring' = SeedExpiring(cached_cert, expiring)
                 /\ listener' = "alive"
                 /\ taskPc' = "upgrade"
                 /\ buildPc' = "ok"
       ELSE /\ UNCHANGED <<cert, certExpiring, chainEmpty>>
            /\ listener' = "alive"
            /\ taskPc' = "upgrade"
            /\ buildPc' = "ok"
    /\ UNCHANGED <<cached_key, cached_cert, acme_keys, taskStrong, iss,
                   orderToken, cacheDisk, cfgVars, hsVars, histVars>>
    /\ UNCHANGED <<lockVars, hotVars, streamVars>>

\* ======================================================================
\* ResolveServerCert: the Certificate Store and the resolver
\* ======================================================================
\* Strong owners of the Arc<ResolveServerCert>: the listener's server
\* config, the server config clone held by a handshake until it is over
\* or dropped, and the binding of the renewal loop's body.
HandshakeHolds == hsPc \in {"inflight", "answered"}
OtherOwners ==
    (IF listener = "alive" THEN 1 ELSE 0) + (IF HandshakeHolds THEN 1 ELSE 0)
StrongCount == OtherOwners + (IF taskStrong THEN 1 ELSE 0)

\* ResolveServerCert::will_expired(before): no identity, or one whose
\* validity ends within `before` of now.
will_expired == cert = NoIdentity \/ certExpiring

\* lines 202-206: h2 and http/1.1, plus acme-tls/1 for TLS-ALPN-01.
AlpnProtocolsWithAcmeAlways == {"h2", "http/1.1", ACME_TLS_ALPN_NAME}
AlpnProtocols ==
    {"h2", "http/1.1"} \cup
    (IF challenge_type = "TlsAlpn01" THEN {ACME_TLS_ALPN_NAME} ELSE {})

\* The protocol a handshake negotiates: the client's offer when the
\* server advertises it.
Negotiated(alpn) == IF alpn \in AlpnProtocols THEN alpn ELSE "none"

\* ResolveServerCert::resolve: a hello asking for acme-tls/1 is answered
\* from the challenge certificates, any other from the stored identity.
ResolveServerCert(alpn) ==
    IF alpn = ACME_TLS_ALPN_NAME
    THEN IF Domain \in acme_keys THEN <<"challenge", Domain>> ELSE <<"none">>
    ELSE IF cert = NoIdentity THEN <<"none">> ELSE <<"production", cert>>

\* lines 197-200: the server config takes its certificate from the
\* resolver at every handshake (with_cert_resolver).
ServerConfigSingleCert(alpn) ==
    IF cert = NoIdentity THEN <<"none">> ELSE <<"production", cert>>
ServerConfigCert(alpn) == ResolveServerCert(alpn)

\* The clock advances: the stored identity comes within the threshold.
TimePasses ==
    /\ cert # NoIdentity
    /\ ~certExpiring
    /\ certExpiring' = TRUE
    /\ UNCHANGED <<cert, chainEmpty, acme_keys, cfgVars, buildVars, taskVars, hsVars, histVars>>
    /\ UNCHANGED <<lockVars, hotVars, streamVars>>

\* The owner of the AcmeListener drops it.
ListenerDrop ==
    /\ listener = "alive"
    /\ listener' = "dropped"
    /\ UNCHANGED <<buildPc, cached_key, cached_cert,
                   cfgVars, storeVars, taskVars, hsVars, histVars>>
    /\ UNCHANGED <<lockVars, hotVars, streamVars>>

\* ======================================================================
\* AcmeListener::accept and the handshake (acme/listener.rs 245-254)
\* ======================================================================
ClientOffers == {"h2", ACME_TLS_ALPN_NAME}

HsAccept ==
    /\ listener = "alive"
    /\ hsPc = "none"
    /\ hsPc' = "inflight"
    /\ UNCHANGED <<hsAlpn, hsCert, cfgVars, buildVars, storeVars, taskVars, histVars>>
    /\ UNCHANGED <<lockVars, hotVars, streamVars>>

\* The client hello is read and the resolver is asked; the handshake goes
\* on, still holding the server config.
HsResolve ==
    /\ hsPc = "inflight"
    /\ \E alpn \in ClientOffers :
          /\ hsAlpn' = alpn
          /\ hsCert' = ServerConfigCert(alpn)
    /\ hsPc' = "answered"
    /\ UNCHANGED <<cfgVars, buildVars, storeVars, taskVars, histVars>>
    /\ UNCHANGED <<lockVars, hotVars, streamVars>>

\* The handshake completes with the answer it was given and releases the
\* server config.
HsFinish ==
    /\ hsPc = "answered"
    /\ hsPc' = "done"
    /\ UNCHANGED <<hsAlpn, hsCert, cfgVars, buildVars, storeVars, taskVars, histVars>>
    /\ UNCHANGED <<lockVars, hotVars, streamVars>>

\* The connection is dropped while its handshake is in flight (silent
\* client, timeout, peer gone): the server config is released.
HsDrop ==
    /\ HandshakeHolds
    /\ hsPc' = "none"
    /\ hsAlpn' = "none"
    /\ hsCert' = <<"none">>
    /\ UNCHANGED <<cfgVars, buildVars, storeVars, taskVars, histVars>>
    /\ UNCHANGED <<lockVars, hotVars, streamVars>>

HsClose ==
    /\ hsPc = "done"
    /\ hsPc' = "none"
    /\ hsAlpn' = "none"
    /\ hsCert' = <<"none">>
    /\ UNCHANGED <<cfgVars, buildVars, storeVars, taskVars, histVars>>
    /\ UNCHANGED <<lockVars, hotVars, streamVars>>

\* ======================================================================
\* HTTP-01 token map (acme/listener.rs 101-116, Http01Handler)
\* ======================================================================
\* jose::key_authorization(key_pair, token): the token joined to the
\* thumbprint of the account key.
KeyAuth(token) == <<token, "thumbprint">>

\* lines 106-108: the handler's `keys` is a clone of the Arc, so it reads
\* the very map the issuer writes.
HandlerKeysSnapshot == EmptyMap
HandlerKeys == IF router_keys = "shared" THEN keys_for_http01 ELSE EmptyMap

\* Http01Handler: the key authorization of a known token, 404 otherwise.
Http01Lookup(token) ==
    IF token \in DOMAIN HandlerKeys THEN HandlerKeys[token] ELSE <<"not_found">>

\* ======================================================================
\* issuer::issue_cert: one issuance attempt (called at line 216)
\* ======================================================================
\* States an attempt can fail in.
Failable == {"Start", "AccountReady", "OrderCreated", "ChallengeSubmitted",
             "Validating", "Finalizing"}
\* States in which the order has resolved.
Terminal == {"CertificateReady", "CacheWrite", "Returning", "Errored"}

NextIdentity(c) == (c % MaxIdent) + 1

issFrame == <<taskPc, taskStrong, cfgVarsNoKeys, buildVars, hsVars, histVars>>

\* Start -> AccountReady: register or reuse the account.
IssueAccount ==
    /\ taskPc = "issue" /\ iss = "Start"
    /\ iss' = "AccountReady"
    /\ UNCHANGED <<orderToken, cacheDisk, keys_for_http01, storeVars, issFrame>>
    /\ UNCHANGED <<lockVars, hotVars, streamVars>>

\* AccountReady -> OrderCreated: the authority returns the challenges.
IssueOrder ==
    /\ taskPc = "issue" /\ iss = "AccountReady"
    /\ \E t \in Tokens : orderToken' = t
    /\ iss' = "OrderCreated"
    /\ UNCHANGED <<cacheDisk, keys_for_http01, storeVars, issFrame>>
    /\ UNCHANGED <<lockVars, hotVars, streamVars>>

\* OrderCreated -> ChallengeSubmitted: install the challenge material of
\* the configured challenge type into its responder.
IssueInstallNothing ==
    /\ taskPc = "issue" /\ iss = "OrderCreated"
    /\ iss' = "ChallengeSubmitted"
    /\ UNCHANGED <<orderToken, cacheDisk, keys_for_http01, storeVars, issFrame>>
    /\ UNCHANGED <<lockVars, hotVars, streamVars>>

IssueInstall ==
    /\ taskPc = "issue" /\ iss = "OrderCreated"
    /\ IF challenge_type = "Http01"
       THEN /\ keys_for_http01' =
                 [t \in DOMAIN keys_for_http01 \cup {orderToken} |->
                     IF t = orderToken THEN KeyAuth(t) ELSE keys_for_http01[t]]
            /\ UNCHANGED acme_keys
       ELSE /\ acme_keys' = domains
            /\ UNCHANGED keys_for_http01
    /\ iss' = "ChallengeSubmitted"
    /\ UNCHANGED <<orderToken, cacheDisk, cert, certExpiring, chainEmpty, issFrame>>
    /\ UNCHANGED <<lockVars, hotVars, streamVars>>

\* ChallengeSubmitted -> Validating: tell the authority to validate.
IssueSignalReady ==
    /\ taskPc = "issue" /\ iss = "ChallengeSubmitted"
    /\ iss' = "Validating"
    /\ UNCHANGED <<orderToken, cacheDisk, keys_for_http01, storeVars, issFrame>>
    /\ UNCHANGED <<lockVars, hotVars, streamVars>>

\* The challenge material is removed when validation is over.
RemoveMaterial ==
    /\ keys_for_http01' = EmptyMap
    /\ acme_keys' = {}

\* Validating -> Finalizing: every authorization is Valid.
IssueValid ==
    /\ taskPc = "issue" /\ iss = "Validating"
    /\ iss' = "Finalizing"
    /\ RemoveMaterial
    /\ UNCHANGED <<orderToken, cacheDisk, cert, certExpiring, chainEmpty, issFrame>>
    /\ UNCHANGED <<lockVars, hotVars, streamVars>>

\* Finalizing -> CertificateReady: CSR submitted, chain downloaded.
IssueFinalize ==
    /\ taskPc = "issue" /\ iss = "Finalizing"
    /\ iss' = "CertificateReady"
    /\ UNCHANGED <<orderToken, cacheDisk, keys_for_http01, storeVars, issFrame>>
    /\ UNCHANGED <<lockVars, hotVars, streamVars>>

\* CertificateReady: CertificateStore.set with the new identity.
IssueSet ==
    /\ taskPc = "issue" /\ iss = "CertificateReady"
    /\ cert' = NextIdentity(cert)
    /\ certExpiring' = FALSE
    /\ chainEmpty' = FALSE
    /\ iss' = IF cache_path THEN "CacheWrite" ELSE "Returning"
    /\ UNCHANGED <<orderToken, cacheDisk, keys_for_http01, acme_keys, issFrame>>
    /\ UNCHANGED <<lockVars, hotVars, streamVars>>

\* The cache write after the set; its failure is only logged.
IssueCacheWriteUndoing ==
    /\ taskPc = "issue" /\ iss = "CacheWrite"
    /\ \E written \in BOOLEAN :
          /\ cacheDisk' = IF written THEN cert ELSE cacheDisk
          /\ cert' = IF written THEN cert ELSE attemptStartCert
    /\ iss' = "Returning"
    /\ UNCHANGED <<orderToken, keys_for_http01, certExpiring, chainEmpty, acme_keys, issFrame>>
    /\ UNCHANGED <<lockVars, hotVars, streamVars>>

IssueCacheWrite ==
    /\ taskPc = "issue" /\ iss = "CacheWrite"
    /\ \E written \in BOOLEAN :
          cacheDisk' = IF written THEN cert ELSE cacheDisk
    /\ iss' = "Returning"
    /\ UNCHANGED <<orderToken, keys_for_http01, storeVars, issFrame>>
    /\ UNCHANGED <<lockVars, hotVars, streamVars>>

\* Any step fails (authority rejection, network failure, timeout, an
\* Invalid authorization): the attempt ends in Errored.
IssueFail ==
    /\ taskPc = "issue" /\ iss \in Failable
    /\ iss' = "Errored"
    /\ RemoveMaterial
    /\ UNCHANGED <<orderToken, cacheDisk, cert, certExpiring, chainEmpty, issFrame>>
    /\ UNCHANGED <<lockVars, hotVars, streamVars>>

\* ======================================================================
\* The renewal task (acme/listener.rs 213-222)
\* ======================================================================
\* line 214: Weak::upgrade succeeds while a strong reference exists.
WeakUpgradeAlways(strong) == TRUE
WeakUpgrade(strong) == strong > 0

TaskUpgrade ==
    /\ taskPc = "upgrade"
    /\ IF WeakUpgrade(StrongCount)
       THEN taskStrong' = TRUE /\ taskPc' = "check"
       ELSE taskStrong' = FALSE /\ taskPc' = "done"
    /\ UNCHANGED <<iss, orderToken, cacheDisk,
                   cfgVars, buildVars, storeVars, hsVars, histVars>>
    /\ UNCHANGED <<lockVars, hotVars, streamVars>>

\* line 215: if cert_resolver.will_expired(before_expired) { issue_cert }
\* line 216: the loop awaits issue_cert before it goes on to the sleep.
TaskCheckDetached ==
    /\ taskPc = "check"
    /\ IF will_expired
       THEN /\ taskPc' = "sleep"
            /\ iss' = "Start"
            /\ attemptStartCert' = cert
            /\ lastOutcome' = "running"
       ELSE /\ taskPc' = "sleep"
            /\ UNCHANGED <<iss, attemptStartCert, lastOutcome>>
    /\ checked' = TRUE
    /\ slept' = FALSE
    /\ UNCHANGED <<taskStrong, orderToken, cacheDisk, sleepsSinceDrop, authority,
                   cfgVars, buildVars, storeVars, hsVars>>
    /\ UNCHANGED <<lockVars, hotVars, streamVars>>

TaskCheckAlways ==
    /\ taskPc = "check"
    /\ taskPc' = "issue"
    /\ iss' = "Start"
    /\ attemptStartCert' = cert
    /\ lastOutcome' = "running"
    /\ checked' = TRUE
    /\ slept' = FALSE
    /\ UNCHANGED <<taskStrong, orderToken, cacheDisk, sleepsSinceDrop, authority,
                   cfgVars, buildVars, storeVars, hsVars>>
    /\ UNCHANGED <<lockVars, hotVars, streamVars>>

TaskCheck ==
    /\ taskPc = "check"
    /\ IF will_expired
       THEN /\ taskPc' = "issue"
            /\ iss' = "Start"
            /\ attemptStartCert' = cert
            /\ lastOutcome' = "running"
       ELSE /\ taskPc' = "sleep"
            /\ UNCHANGED <<iss, attemptStartCert, lastOutcome>>
    /\ checked' = TRUE
    /\ slept' = FALSE
    /\ UNCHANGED <<taskStrong, orderToken, cacheDisk, sleepsSinceDrop, authority,
                   cfgVars, buildVars, storeVars, hsVars>>
    /\ UNCHANGED <<lockVars, hotVars, streamVars>>

\* line 216, Ok: issue_cert returned Ok(()); on to the sleep.
TaskIssueOk ==
    /\ taskPc = "issue" /\ iss = "Returning"
    /\ taskPc' = "sleep"
    /\ iss' = "Idle"
    /\ lastOutcome' = "ok"
    /\ UNCHANGED <<taskStrong, orderToken, cacheDisk, attemptStartCert,
                   sleepsSinceDrop, authority, checked, slept,
                   cfgVars, buildVars, storeVars, hsVars>>
    /\ UNCHANGED <<lockVars, hotVars, streamVars>>

\* lines 216-218, Err: the error is logged; the resolver is not touched
\* and the loop goes on to the sleep.
OnIssueErrorClear(c) == NoIdentity
OnIssueError(c) == c
AfterIssueErrorBreak == "done"
AfterIssueErrorRetryNow == "upgrade"
AfterIssueError == "sleep"

TaskIssueErr ==
    /\ taskPc = "issue" /\ iss = "Errored"
    /\ taskPc' = AfterIssueError
    /\ cert' = OnIssueError(cert)
    /\ iss' = "Idle"
    /\ lastOutcome' = "failed"
    /\ UNCHANGED <<taskStrong, orderToken, cacheDisk, attemptStartCert,
                   sleepsSinceDrop, authority, checked, slept,
                   certExpiring, chainEmpty, acme_keys,
                   cfgVars, buildVars, hsVars>>
    /\ UNCHANGED <<lockVars, hotVars, streamVars>>

\* lines 220-221: the sleep completes, the body's binding is dropped and
\* the loop condition is evaluated again.
TaskSleepDone ==
    /\ taskPc = "sleep"
    /\ taskPc' = "upgrade"
    /\ taskStrong' = FALSE
    /\ sleepsSinceDrop' =
          IF OtherOwners = 0 /\ sleepsSinceDrop < 2
          THEN sleepsSinceDrop + 1 ELSE sleepsSinceDrop
    /\ slept' = TRUE
    /\ UNCHANGED <<iss, orderToken, cacheDisk, attemptStartCert, lastOutcome,
                   authority, checked, cfgVars, buildVars, storeVars, hsVars>>
    /\ UNCHANGED <<lockVars, hotVars, streamVars>>

IssueStep ==
    \/ IssueAccount
    \/ IssueOrder
    \/ IssueInstall
    \/ IssueSignalReady
    \/ IssueValid
    \/ IssueFinalize
    \/ IssueSet
    \/ IssueCacheWrite
    \/ IssueFail

TaskStep ==
    \/ TaskUpgrade
    \/ TaskCheck
    \/ TaskIssueOk
    \/ TaskIssueErr
    \/ TaskSleepDone

\* ======================================================================
\* The store at lock granularity: `cert: RwLock<Option<Arc<CertifiedKey>>>`
\* written as at line 190, `*cert_resolver.cert.write() = Some(..)`, and
\* read by every handshake.  An identity is a chain and its key; set i
\* writes chain i and key i.
\* ======================================================================
Readers == 1..MaxReaders

InitStore ==
    /\ lock_writer = FALSE
    /\ lock_readers = {}
    /\ store_chain = NoIdentity
    /\ store_key = NoIdentity
    /\ setPc = "idle"
    /\ getPc = [r \in Readers |-> "idle"]
    /\ got_chain = [r \in Readers |-> NoIdentity]
    /\ got_key = [r \in Readers |-> NoIdentity]
    /\ begun = 0
    /\ completed = 0
    /\ getLo = [r \in Readers |-> 0]
    /\ getHi = [r \in Readers |-> 0]

\* RwLock::write: exclusive of the writer and of every reader.
CanWriteDespiteReaders == ~lock_writer
CanWrite == ~lock_writer /\ lock_readers = {}
\* RwLock::read: shared among readers, exclusive of the writer.
CanRead == ~lock_writer

ActiveReaders == {r \in Readers : getPc[r] \in {"wait", "chain", "key", "unlock"}}

\* A renewal calls set with the next identity.
SetBegin ==
    /\ setPc = "idle"
    /\ completed < MaxSets
    /\ setPc' = "wait"
    /\ begun' = completed + 1
    /\ getHi' = [r \in Readers |-> IF r \in ActiveReaders THEN completed + 1 ELSE getHi[r]]
    /\ UNCHANGED <<lock_writer, lock_readers, store_chain, store_key, getPc,
                   got_chain, got_key, completed, getLo>>
    /\ UNCHANGED <<acmeVars, hotVars, streamVars>>

SetLock ==
    /\ setPc = "wait"
    /\ CanWrite
    /\ lock_writer' = TRUE
    /\ setPc' = "chain"
    /\ UNCHANGED <<lock_readers, store_chain, store_key, getPc,
                   got_chain, got_key, begun, completed, getLo, getHi>>
    /\ UNCHANGED <<acmeVars, hotVars, streamVars>>

SetChain ==
    /\ setPc = "chain"
    /\ store_chain' = begun
    /\ setPc' = "key"
    /\ UNCHANGED <<lock_writer, lock_readers, store_key, getPc,
                   got_chain, got_key, begun, completed, getLo, getHi>>
    /\ UNCHANGED <<acmeVars, hotVars, streamVars>>

SetKey ==
    /\ setPc = "key"
    /\ store_key' = begun
    /\ setPc' = "unlock"
    /\ UNCHANGED <<lock_writer, lock_readers, store_chain, getPc,
                   got_chain, got_key, begun, completed, getLo, getHi>>
    /\ UNCHANGED <<acmeVars, hotVars, streamVars>>

SetUnlock ==
    /\ setPc = "unlock"
    /\ lock_writer' = FALSE
    /\ setPc' = "idle"
    /\ completed' = begun
    /\ UNCHANGED <<lock_readers, store_chain, store_key, getPc,
                   got_chain, got_key, begun, getLo, getHi>>
    /\ UNCHANGED <<acmeVars, hotVars, streamVars>>

\* A handshake calls get.
GetBegin(r) ==
    /\ getPc[r] = "idle"
    /\ getPc' = [getPc EXCEPT ![r] = "wait"]
    /\ getLo' = [getLo EXCEPT ![r] = completed]
    /\ getHi' = [getHi EXCEPT ![r] = begun]
    /\ UNCHANGED <<lock_writer, lock_readers, store_chain, store_key, setPc,
                   got_chain, got_key, begun, completed>>
    /\ UNCHANGED <<acmeVars, hotVars, streamVars>>

GetLock(r) ==
    /\ getPc[r] = "wait"
    /\ CanRead
    /\ lock_readers' = lock_readers \cup {r}
    /\ getPc' = [getPc EXCEPT ![r] = "chain"]
    /\ UNCHANGED <<lock_writer, store_chain, store_key, setPc,
                   got_chain, got_key, begun, completed, getLo, getHi>>
    /\ UNCHANGED <<acmeVars, hotVars, streamVars>>

GetChain(r) ==
    /\ getPc[r] = "chain"
    /\ got_chain' = [got_chain EXCEPT ![r] = store_chain]
    /\ getPc' = [getPc EXCEPT ![r] = "key"]
    /\ UNCHANGED <<lock_writer, lock_readers, store_chain, store_key, setPc,
                   got_key, begun, completed, getLo, getHi>>
    /\ UNCHANGED <<acmeVars, hotVars, streamVars>>

GetKey(r) ==
    /\ getPc[r] = "key"
    /\ got_key' = [got_key EXCEPT ![r] = store_key]
    /\ getPc' = [getPc EXCEPT ![r] = "unlock"]
    /\ UNCHANGED <<lock_writer, lock_readers, store_chain, store_key, setPc,
                   got_chain, begun, completed, getLo, getHi>>
    /\ UNCHANGED <<acmeVars, hotVars, streamVars>>

GetUnlock(r) ==
    /\ getPc[r] = "unlock"
    /\ lock_readers' = lock_readers \ {r}
    /\ getPc' = [getPc EXCEPT ![r] = "done"]
    /\ UNCHANGED <<lock_writer, store_chain, store_key, setPc,
                   got_chain, got_key, begun, completed, getLo, getHi>>
    /\ UNCHANGED <<acmeVars, hotVars, streamVars>>

\* The handshake is over; the reader may serve another one.
GetReset(r) ==
    /\ getPc[r] = "done"
    /\ getPc' = [getPc EXCEPT ![r] = "idle"]
    /\ got_chain' = [got_chain EXCEPT ![r] = NoIdentity]
    /\ got_key' = [got_key EXCEPT ![r] = NoIdentity]
    /\ getLo' = [getLo EXCEPT ![r] = 0]
    /\ getHi' = [getHi EXCEPT ![r] = 0]
    /\ UNCHANGED <<lock_writer, lock_readers, store_chain, store_key, setPc,
                   begun, completed>>
    /\ UNCHANGED <<acmeVars, hotVars, streamVars>>

NextStore ==
    \/ SetBegin
    \/ SetLock
    \/ SetChain
    \/ SetKey
    \/ SetUnlock
    \/ \E r \in Readers : GetBegin(r)
    \/ \E r \in Readers : GetLock(r)
    \/ \E r \in Readers : GetChain(r)
    \/ \E r \in Readers : GetKey(r)
    \/ \E r \in Readers : GetUnlock(r)
    \/ \E r \in Readers : GetReset(r)

\* ======================================================================
\* OpensslListener: the hot-reloadable acceptor (openssl/listener.rs)
\* ======================================================================
NoAcceptor == 0
\* tests::test_openssl_listener, line 278: tls_stream.write_i32(518)
ClientData == 518
Conns == 1..MaxConns

NoConn == [st |-> "unborn", acceptor |-> NoAcceptor, applied |-> 0,
           hs_ctx |-> NoAcceptor, read |-> 0]

InitHot ==
    /\ config_kind = "none"
    /\ config_stream = <<>>
    /\ config_sent = 0
    /\ config_ended = FALSE
    /\ current_tls_acceptor = NoAcceptor
    /\ acceptPc = "idle"
    /\ lastResult = "none"
    /\ conns = [c \in Conns |-> NoConn]
    /\ lastApplied = 0

hotFrame == <<acmeVars, lockVars, streamVars>>

\* lines 34-43: a single config becomes a one-item stream that is ready at
\* once and then ends; a config that cannot be built is refused.
\* lines 67-77: the listener starts without an acceptor.
NewWithConfig ==
    /\ config_kind = "none"
    /\ \E valid \in BOOLEAN :
          IF valid
          THEN /\ config_kind' = "once"
               /\ config_stream' = <<[id |-> 1, valid |-> TRUE]>>
               /\ config_sent' = 1
               /\ config_ended' = TRUE
          ELSE /\ config_kind' = "invalid"
               /\ UNCHANGED <<config_stream, config_sent, config_ended>>
    /\ UNCHANGED <<current_tls_acceptor, acceptPc, lastResult, conns, lastApplied>>
    /\ UNCHANGED hotFrame

\* lines 23-32: any stream of configs is taken as it is.
NewWithStream ==
    /\ config_kind = "none"
    /\ config_kind' = "stream"
    /\ UNCHANGED <<config_stream, config_sent, config_ended,
                   current_tls_acceptor, acceptPc, lastResult, conns, lastApplied>>
    /\ UNCHANGED hotFrame

Listening == config_kind \in {"once", "stream"}

\* The owner of the stream produces a new configuration item.
ConfigArrives ==
    /\ config_kind = "stream"
    /\ ~config_ended
    /\ config_sent < MaxConfigs
    /\ \E valid \in BOOLEAN :
          config_stream' = Append(config_stream, [id |-> config_sent + 1, valid |-> valid])
    /\ config_sent' = config_sent + 1
    /\ UNCHANGED <<config_kind, config_ended, current_tls_acceptor, acceptPc,
                   lastResult, conns, lastApplied>>
    /\ UNCHANGED hotFrame

\* The owner of the stream closes it.
ConfigStreamEnds ==
    /\ config_kind = "stream"
    /\ ~config_ended
    /\ config_ended' = TRUE
    /\ UNCHANGED <<config_kind, config_stream, config_sent, current_tls_acceptor,
                   acceptPc, lastResult, conns, lastApplied>>
    /\ UNCHANGED hotFrame

\* A client connects to the bound socket; the kernel queues it.
Unborn == {c \in Conns : conns[c].st = "unborn"}
Queued == {c \in Conns : conns[c].st = "queued"}
Least(S) == CHOOSE c \in S : \A d \in S : c <= d

ClientConnect ==
    /\ Listening
    /\ Unborn # {}
    /\ conns' = [conns EXCEPT ![Least(Unborn)].st = "queued"]
    /\ UNCHANGED <<config_kind, config_stream, config_sent, config_ended,
                   current_tls_acceptor, acceptPc, lastResult, lastApplied>>
    /\ UNCHANGED hotFrame

\* line 120: accept is called.
AcceptCall ==
    /\ Listening
    /\ acceptPc = "idle"
    /\ acceptPc' = "select"
    /\ UNCHANGED <<config_kind, config_stream, config_sent, config_ended,
                   current_tls_acceptor, lastResult, conns, lastApplied>>
    /\ UNCHANGED hotFrame

\* line 132: the acceptor built from the item replaces the current one.
NextAcceptorKeepFirst(cur, id) == IF cur = NoAcceptor THEN id ELSE cur
NextAcceptor(cur, id) == id

\* lines 123-139: the select takes the `next config` branch.  A valid item
\* replaces the acceptor, an invalid one is logged, and the end of the
\* stream hits unreachable!().
SelectConfigInvalidClears ==
    /\ acceptPc = "select"
    /\ config_stream # <<>> \/ config_ended
    /\ IF config_stream # <<>>
       THEN /\ config_stream' = Tail(config_stream)
            /\ IF Head(config_stream).valid
               THEN /\ current_tls_acceptor' =
                         NextAcceptor(current_tls_acceptor, Head(config_stream).id)
                    /\ lastApplied' = Head(config_stream).id
               ELSE /\ current_tls_acceptor' = NoAcceptor
                    /\ UNCHANGED lastApplied
            /\ UNCHANGED acceptPc
       ELSE /\ acceptPc' = "panic"
            /\ UNCHANGED <<config_stream, current_tls_acceptor, lastApplied>>
    /\ UNCHANGED <<config_kind, config_sent, config_ended, lastResult, conns>>
    /\ UNCHANGED hotFrame

SelectConfig ==
    /\ acceptPc = "select"
    /\ config_stream # <<>> \/ config_ended
    /\ IF config_stream # <<>>
       THEN /\ config_stream' = Tail(config_stream)
            /\ IF Head(config_stream).valid
               THEN /\ current_tls_acceptor' =
                         NextAcceptor(current_tls_acceptor, Head(config_stream).id)
                    /\ lastApplied' = Head(config_stream).id
               ELSE UNCHANGED <<current_tls_acceptor, lastApplied>>
            /\ UNCHANGED acceptPc
       ELSE /\ acceptPc' = "panic"
            /\ UNCHANGED <<config_stream, current_tls_acceptor, lastApplied>>
    /\ UNCHANGED <<config_kind, config_sent, config_ended, lastResult, conns>>
    /\ UNCHANGED hotFrame

\* lines 142-145: without a current acceptor the connection is refused.
AcceptOutcomeAlwaysStream(cur) == "lazy"
AcceptOutcomeAwaitsHandshake(cur) == IF cur = NoAcceptor THEN "no_config" ELSE "ready"
AcceptOutcome(cur) == IF cur = NoAcceptor THEN "no_config" ELSE "lazy"

\* lines 140-157: the select takes the `next connection` branch and accept
\* returns: the error, or a stream whose handshake future captured the
\* acceptor current at this moment.
SelectConn ==
    /\ acceptPc = "select"
    /\ Queued # {}
    /\ LET c == Least(Queued)
           out == AcceptOutcome(current_tls_acceptor)
       IN /\ conns' = [conns EXCEPT ![c] =
                         [@ EXCEPT !.st = out,
                                   !.acceptor = current_tls_acceptor,
                                   !.applied = lastApplied]]
          /\ lastResult' = IF out = "lazy" THEN "stream" ELSE out
    /\ acceptPc' = "idle"
    /\ UNCHANGED <<config_kind, config_stream, config_sent, config_ended,
                   current_tls_acceptor, lastApplied>>
    /\ UNCHANGED hotFrame

\* line 141: `res?`, the inner accept failed.
SelectConnError ==
    /\ acceptPc = "select"
    /\ lastResult' = "io_error"
    /\ acceptPc' = "idle"
    /\ UNCHANGED <<config_kind, config_stream, config_sent, config_ended,
                   current_tls_acceptor, conns, lastApplied>>
    /\ UNCHANGED hotFrame

\* lines 146-154: the deferred handshake runs on the stream's first I/O,
\* with the context of the acceptor the future captured.
HandshakeContext(captured) == captured

HotHandshake(c) ==
    /\ conns[c].st = "lazy"
    /\ \E ok \in BOOLEAN :
          conns' = [conns EXCEPT ![c] =
                      IF ok
                      THEN [@ EXCEPT !.st = "ready",
                                     !.hs_ctx = HandshakeContext(conns[c].acceptor)]
                      ELSE [@ EXCEPT !.st = "failed"]]
    /\ UNCHANGED <<config_kind, config_stream, config_sent, config_ended,
                   current_tls_acceptor, acceptPc, lastResult, lastApplied>>
    /\ UNCHANGED hotFrame

\* tests, lines 278 and 282: what the client wrote after the handshake is
\* what the server reads.
HotRead(c) ==
    /\ conns[c].st = "ready"
    /\ conns[c].read = 0
    /\ conns' = [conns EXCEPT ![c].read = ClientData]
    /\ UNCHANGED <<config_kind, config_stream, config_sent, config_ended,
                   current_tls_acceptor, acceptPc, lastResult, lastApplied>>
    /\ UNCHANGED hotFrame

NextHot ==
    \/ NewWithConfig
    \/ NewWithStream
    \/ ConfigArrives
    \/ ConfigStreamEnds
    \/ ClientConnect
    \/ AcceptCall
    \/ SelectConfig
    \/ SelectConn
    \/ SelectConnError
    \/ \E c \in Conns : HotHandshake(c)
    \/ \E c \in Conns : HotRead(c)

\* ======================================================================
\* OpensslStream: I/O gated on the handshake (openssl/listener.rs 163-230)
\* ======================================================================
Streams == 1..MaxStreams
\* poll_read, poll_write and poll_flush go through sync_ready.
IoCalls == {"read", "write", "flush"}
NoPoll == <<"none", "none">>

\* lines 172-178: OpensslStream::new, is_ready: false.
InitStream ==
    /\ peer = [s \in Streams |-> "silent"]
    /\ inner_stream = [s \in Streams |-> "accepting"]
    /\ is_ready = [s \in Streams |-> FALSE]
    /\ last_poll = [s \in Streams |-> NoPoll]
    /\ early_ops = [s \in Streams |-> {}]

streamFrame == <<acmeVars, lockVars, hotVars>>

\* Flights of the client that make the handshake fail.
BadFlights == {"bad_hello", "bad_finished"}

\* The client of a stream sends its hello, a good one or a bad one.
ClientHello(s) ==
    /\ peer[s] = "silent"
    /\ \E good \in BOOLEAN :
          peer' = [peer EXCEPT ![s] = IF good THEN "hello" ELSE "bad_hello"]
    /\ UNCHANGED <<inner_stream, is_ready, last_poll, early_ops>>
    /\ UNCHANGED streamFrame

\* The client, having received the server's flight, sends its second
\* flight, a good one or a bad one.
ClientFinished(s) ==
    /\ peer[s] = "hello"
    /\ inner_stream[s] = "negotiating"
    /\ \E good \in BOOLEAN :
          peer' = [peer EXCEPT ![s] = IF good THEN "finished" ELSE "bad_finished"]
    /\ UNCHANGED <<inner_stream, is_ready, last_poll, early_ops>>
    /\ UNCHANGED streamFrame

\* lines 183-184: SslStream::poll_accept drives the handshake with what the
\* client has sent so far: it is ready only when the client's second
\* flight has come, and pending while the client is silent or has sent
\* its hello only.
PollAccept(ssl, sent) ==
    CASE ssl = "established" -> "ready_ok"
      [] ssl = "failed" -> "ready_err"
      [] sent = "finished" -> "ready_ok"
      [] sent \in BadFlights -> "ready_err"
      [] OTHER -> "pending"

\* The SslStream after a poll_accept with that answer: while pending, a
\* hello that has come is read and the server's flight is written.
AfterAccept(ssl, answer, sent) ==
    CASE answer = "ready_ok" -> "established"
      [] answer = "ready_err" -> "failed"
      [] sent = "hello" -> "negotiating"
      [] OTHER -> ssl

\* lines 181-190: sync_ready.  The answer of poll_accept when the flag is
\* not set yet; an error leaves through `?`, a ready sets the flag.
SyncReadyFlag(flag, answer) == flag \/ answer = "ready_ok"

\* lines 197, 209, 219: `if pin.sync_ready(cx)? { inner } else { Pending }`
GateOpen(ready) == TRUE
Gate(ready) == ready

\* The call is handed to inner_stream: recorded as early when the
\* handshake of the SslStream is not over at that moment.
PassedEarly(s, call, ssl) ==
    [early_ops EXCEPT ![s] = IF ssl = "established" THEN @ ELSE @ \cup {call}]

\* lines 193-224: poll_read, poll_write, poll_flush.
PollIo(s, call) ==
    LET answer == IF is_ready[s] THEN "ready_ok"
                  ELSE PollAccept(inner_stream[s], peer[s])
        ssl == IF is_ready[s] THEN inner_stream[s]
               ELSE AfterAccept(inner_stream[s], answer, peer[s])
    IN /\ inner_stream' = [inner_stream EXCEPT ![s] = ssl]
       /\ IF answer = "ready_err"
          THEN /\ last_poll' = [last_poll EXCEPT ![s] = <<call, "error">>]
               /\ UNCHANGED <<is_ready, early_ops>>
          ELSE /\ is_ready' = [is_ready EXCEPT ![s] = SyncReadyFlag(@, answer)]
               /\ IF Gate(SyncReadyFlag(is_ready[s], answer))
                  THEN /\ last_poll' = [last_poll EXCEPT ![s] = <<call, "inner">>]
                       /\ early_ops' = PassedEarly(s, call, ssl)
                  ELSE /\ last_poll' = [last_poll EXCEPT ![s] = <<call, "pending">>]
                       /\ UNCHANGED early_ops
    /\ UNCHANGED peer
    /\ UNCHANGED streamFrame

\* lines 226-229: poll_shutdown goes to inner_stream without sync_ready.
PollShutdown(s) ==
    /\ last_poll' = [last_poll EXCEPT ![s] = <<"shutdown", "inner">>]
    /\ early_ops' = PassedEarly(s, "shutdown", inner_stream[s])
    /\ UNCHANGED <<peer, inner_stream, is_ready>>
    /\ UNCHANGED streamFrame

NextStream ==
    \/ \E s \in Streams : ClientHello(s)
    \/ \E s \in Streams : ClientFinished(s)
    \/ \E s \in Streams, call \in IoCalls : PollIo(s, call)
    \/ \E s \in Streams : PollShutdown(s)

Init == InitAcme /\ InitStore /\ InitHot /\ InitStream

Next ==
    \/ BuilderAddDomain
    \/ BuilderHttp01
    \/ BuilderTlsAlpn01
    \/ BuilderCachePath
    \/ BuildConfig
    \/ BuildClient
    \/ BuildReadKey
    \/ BuildReadCert
    \/ BuildFinish
    \/ TimePasses
    \/ ListenerDrop
    \/ HsAccept
    \/ HsResolve
    \/ HsFinish
    \/ HsDrop
    \/ HsClose
    \/ IssueAccount
    \/ IssueOrder
    \/ IssueInstall
    \/ IssueSignalReady
    \/ IssueValid
    \/ IssueFinalize
    \/ IssueSet
    \/ IssueCacheWrite
    \/ IssueFail
    \/ TaskUpgrade
    \/ TaskCheck
    \/ TaskIssueOk
    \/ TaskIssueErr
    \/ TaskSleepDone

Spec == Init /\ [][Next]_vars

SpecStore == Init /\ [][NextStore]_vars

SpecHot == Init /\ [][NextHot]_vars

SpecStream == Init /\ [][NextStream]_vars

\* The renewal task is a spawned tokio task: the runtime keeps polling it,
\* and every await inside an attempt ends by an answer or a timeout.
FairSpec == Spec /\ WF_vars(TaskStep \/ IssueStep)

\* ======================================================================
\* Properties
\* ======================================================================
Production(c) == IF c = NoIdentity THEN <<"none">> ELSE <<"production", c>>

\* C2: once the listener and every handshake holding the server config are
\* gone (no strong owner of the store but the renewal task), at most one
\* further poll-interval sleep completes, and the renewal loop terminates.
C2_LoopEndsAfterDrop ==
    /\ [](sleepsSinceDrop <= 1)
    /\ [](sleepsSinceDrop = 1 => taskPc \in {"upgrade", "done"})
    /\ ((buildPc = "ok" /\ OtherOwners = 0) ~> (taskPc = "done"))

\* C2 witness: the listener was dropped while the task was busy or asleep,
\* exactly one sleep completed after that, and the task has ended.
C2_Witness == taskPc = "done" /\ sleepsSinceDrop = 1 /\ listener = "dropped"

\* C3: during an attempt that has not reached CertificateReady, and after
\* an attempt that failed, the store holds what it held when the attempt
\* started, and that is what an ordinary handshake is answered with.
C3_FailedAttemptKeepsStore ==
    (lastOutcome = "failed" \/ (taskPc = "issue" /\ iss \in Failable \cup {"Errored"}))
        => /\ cert = attemptStartCert
           /\ ServerConfigCert("h2") = Production(attemptStartCert)

\* C3 witness: an attempt started with an identity in the store has failed.
C3_Witness ==
    lastOutcome = "failed" /\ attemptStartCert # NoIdentity /\ taskPc = "sleep"

\* C4: the loop ends only when the store has no other owner; after a
\* failed attempt the task goes to its sleep, from the sleep to the loop
\* condition, from there (store still owned) to the freshness check, and
\* from a check that finds the store expiring to a new attempt in Start;
\* and the sleep after a failed attempt does lead to the next check,
\* unless the loop ends because the store lost its owners.
C4_FailureKeepsLoop ==
    /\ [](taskPc = "done" => OtherOwners = 0)
    /\ ((lastOutcome = "failed" /\ taskPc = "sleep") ~> (taskPc \in {"check", "done"}))
    /\ [][ /\ (taskPc = "issue" /\ iss = "Errored" /\ taskPc' # taskPc)
                => taskPc' = "sleep"
           /\ (lastOutcome = "failed" /\ taskPc = "sleep" /\ taskPc' # taskPc)
                => taskPc' = "upgrade"
           /\ (lastOutcome = "failed" /\ taskPc = "upgrade" /\ OtherOwners > 0
                 /\ taskPc' # taskPc)
                => taskPc' = "check"
           /\ (lastOutcome = "failed" /\ taskPc = "check" /\ will_expired
                 /\ taskPc' # taskPc)
                => (taskPc' = "issue" /\ iss' = "Start") ]_vars

\* C4 witness: after a failed attempt the loop has slept and stands at
\* another freshness check that will start a new attempt.
C4_Witness ==
    lastOutcome = "failed" /\ taskPc = "check" /\ will_expired /\ listener = "alive"

\* C8: with TLS-ALPN-01 selected, a handshake that negotiated acme-tls/1
\* was answered with a challenge certificate or with none, never with the
\* production identity.
C8_AcmeHandshakeNeverProduction ==
    (challenge_type = "TlsAlpn01" /\ hsPc \in {"answered", "done"}
        /\ Negotiated(hsAlpn) = ACME_TLS_ALPN_NAME)
        => hsCert \in {<<"challenge", Domain>>, <<"none">>}

\* C8 witness: a production identity is stored and a handshake negotiating
\* acme-tls/1 has been answered with the challenge certificate.
C8_Witness ==
    /\ challenge_type = "TlsAlpn01" /\ hsPc = "done"
    /\ Negotiated(hsAlpn) = ACME_TLS_ALPN_NAME
    /\ cert # NoIdentity
    /\ hsCert = <<"challenge", Domain>>

\* C9: with HTTP-01, the lookup of the order's token gives its key
\* authorization while the order is Validating, gives nothing once the
\* order is in a terminal state or the attempt has returned, and any other
\* token gives nothing at any time.
C9_TokenLookup ==
    /\ (challenge_type = "Http01" /\ taskPc = "issue" /\ iss = "Validating")
          => Http01Lookup(orderToken) = KeyAuth(orderToken)
    /\ (iss \in Terminal \/ lastOutcome \in {"ok", "failed"})
          => Http01Lookup(orderToken) = <<"not_found">>
    /\ \A t \in Tokens \cup {NoToken} :
          t # orderToken => Http01Lookup(t) = <<"not_found">>

\* C9 witness: an HTTP-01 order is Validating and its token is served.
C9_Witness ==
    /\ challenge_type = "Http01" /\ taskPc = "issue" /\ iss = "Validating"
    /\ Http01Lookup(orderToken) = KeyAuth(orderToken)

\* C10: a build that failed produced no listener and spawned no renewal
\* task; an invalid configuration or an unreachable authority makes the
\* build fail, so a listener or a task exists only for a valid
\* configuration and a reachable authority.
C10_FailedBuildProducesNothing ==
    /\ buildPc \in BuildErrors => (listener = "none" /\ taskPc = "unspawned")
    /\ (buildPc # "builder" /\ ~ConfigValid) => buildPc = "err_config"
    /\ authority = "unreachable" => buildPc = "err_client"
    /\ (listener # "none" \/ taskPc # "unspawned")
          => (ConfigValid /\ authority = "reachable")

\* C10 witness: a valid configuration whose authority could not be reached.
C10_Witness ==
    buildPc = "err_client" /\ ConfigValid /\ listener = "none" /\ taskPc = "unspawned"

\* C1: a get that has returned holds the chain and the key of one and the
\* same set (never a mix), and that set is neither older than the last
\* one completed when the get began nor newer than the last one begun
\* before the get ended; a get that overlapped no set thus returns exactly
\* the identity of the last completed set.
C1_NoTornRead ==
    \A r \in Readers :
        getPc[r] = "done" =>
            /\ got_chain[r] = got_key[r]
            /\ getLo[r] <= got_chain[r]
            /\ got_chain[r] <= getHi[r]

\* C1 witness: one get returned set 1 with no set overlapping it, another
\* overlapped set 2 and returned it whole.
C1_Witness ==
    \E r1, r2 \in Readers :
        /\ getPc[r1] = "done" /\ getLo[r1] = 1 /\ getHi[r1] = 1 /\ got_chain[r1] = 1
        /\ getPc[r2] = "done" /\ getLo[r2] = 1 /\ getHi[r2] = 2 /\ got_key[r2] = 2

Taken == {c \in Conns : conns[c].st \in {"no_config", "lazy", "ready", "failed"}}

\* C5: a connection that accept took while no configuration item had been
\* applied was answered by accept returning the configuration-missing
\* error: accept did not keep it waiting and gave no stream for it.
C5_NoConfigIsAnError ==
    \A c \in Taken : conns[c].applied = 0 => conns[c].st = "no_config"

\* C5 witness: accept has just returned the configuration-missing error
\* for a connection it took while no item had been applied.
C5_Witness ==
    /\ \E c \in Conns : conns[c].st = "no_config" /\ conns[c].applied = 0
    /\ lastResult = "no_config" /\ acceptPc = "idle"

\* C6: a connection accepted after item n became the current acceptor and
\* before a later item was applied is handshaked with the context built
\* from item n, whatever is applied between the accept and the handshake.
C6_HandshakeUsesCurrentConfig ==
    \A c \in Conns :
        conns[c].st = "ready" =>
            (conns[c].applied # 0 /\ conns[c].hs_ctx = conns[c].applied)

\* C6 witness: one connection was accepted under item 1 and handshaked
\* with it, a later one under item 2 and handshaked with that.
C6_Witness ==
    \E c1, c2 \in Conns :
        /\ conns[c1].st = "ready" /\ conns[c1].applied = 1 /\ conns[c1].hs_ctx = 1
        /\ conns[c2].st = "ready" /\ conns[c2].applied = 2 /\ conns[c2].hs_ctx = 2

\* C7: with a listener made from one valid static configuration, accept
\* never answers a connection with the configuration-missing error and
\* never panics, and what the server reads is what the client wrote.
C7_StaticConfigAccepts ==
    config_kind = "once" =>
        /\ acceptPc # "panic"
        /\ \A c \in Conns : conns[c].st # "no_config"
        /\ \A c \in Conns : conns[c].read # 0 => conns[c].read = ClientData

\* C11: with a cache configured, nothing the cache holds makes build panic,
\* and a build whose cached key or cached certificate is absent, malformed
\* or unusable returns a listener over a store that was left unseeded.
C11_CacheNeverBreaksBuild ==
    cache_path =>
        /\ buildPc # "panic"
        /\ (buildPc = "ok" /\ lastOutcome = "none"
              /\ (cached_key # "ecdsa" \/ cached_cert \in {"none", "empty"}))
              => cert = NoIdentity

\* C12: accept returns the stream of a connection before its handshake has
\* run: the connection leaves the queue as a stream whose handshake is
\* still to come (or as the configuration-missing error) and accept is
\* over; a stream whose client stays silent has delivered no data, and it
\* never disables the `next connection` branch of a later accept.
C12_AcceptDoesNotAwaitHandshake ==
    /\ []((acceptPc = "select" /\ Queued # {}) => ENABLED SelectConn)
    /\ [](\A c \in Conns : conns[c].st = "lazy" => conns[c].read = 0)
    /\ [][\A c \in Conns :
             (conns[c].st = "queued" /\ conns'[c].st # "queued")
                => (conns'[c].st \in {"lazy", "no_config"} /\ acceptPc' = "idle")]_vars

\* C12 witness: the first client never sent its handshake, and a later
\* accept returned the second connection, which was handshaked and read.
C12_Witness ==
    /\ conns[1].st = "lazy" /\ conns[1].read = 0
    /\ conns[2].st = "ready" /\ conns[2].read = ClientData
    /\ acceptPc = "idle"

\* C13: an attempt is in flight exactly while the renewal loop is waiting
\* inside issue_cert, a new attempt is started only when none is in
\* flight, and the store is written only by the seeding of build (before
\* the task exists) or by the one attempt in flight.
C13_IssuanceSerialized ==
    /\ []((iss # "Idle") <=> (lastOutcome = "running"))
    /\ [](lastOutcome = "running" => taskPc = "issue")
    /\ [][ /\ (taskPc = "check" /\ taskPc' # "check" /\ lastOutcome' = "running")
                => (lastOutcome # "running" /\ iss = "Idle")
           /\ (cert' # cert)
                => \/ (buildPc = "finish" /\ taskPc = "unspawned")
                   \/ (taskPc = "issue" /\ lastOutcome = "running"
                         /\ iss = "CertificateReady") ]_vars

\* C13 witness: a second attempt is validating after a first one, started
\* on an empty store without a cache, had stored its identity.
C13_Witness ==
    /\ taskPc = "issue" /\ iss = "Validating" /\ lastOutcome = "running"
    /\ attemptStartCert # NoIdentity /\ ~cache_path

\* C14: when the cache write of a successful attempt takes place the store
\* already holds the newly issued identity, the cache is written with that
\* identity and at no other moment, and whether the write succeeds or
\* fails the store keeps the new identity and an ordinary handshake is
\* answered with it.
C14_StoreBeforeCache ==
    /\ []((iss \in {"CacheWrite", "Returning"} \/ lastOutcome = "ok")
            => /\ cert = NextIdentity(attemptStartCert)
               /\ ServerConfigCert("h2") = Production(NextIdentity(attemptStartCert)))
    /\ [][(cacheDisk' # cacheDisk)
            => (iss = "CacheWrite" /\ cert = NextIdentity(attemptStartCert)
                  /\ cacheDisk' = cert /\ cert' = cert)]_vars

\* C14 witness: an attempt with a cache configured has returned Ok though
\* the cache was never written, and a handshake was answered with the new
\* identity.
C14_Witness ==
    /\ lastOutcome = "ok" /\ cache_path /\ cacheDisk = NoIdentity
    /\ cert = NextIdentity(attemptStartCert)
    /\ hsPc = "done" /\ hsCert = <<"production", cert>>

\* C15 as claimed: every freshness check, the first one after build
\* included, is made after a poll-interval sleep has completed.
C15_EveryCheckAfterSleep == taskPc = "check" => slept

\* C15 amended: every freshness check but the first is made after a sleep
\* has completed since the check before it, and the first is made as soon
\* as the task runs; an attempt is started only at a check that finds
\* will_expired true, and after an attempt the loop sleeps before it
\* checks again, so that one check starts at most one attempt.
C15_CheckAfterSleepButFirst ==
    /\ []((taskPc = "check" /\ checked) => slept)
    /\ []((taskPc = "check" /\ ~checked) => ~slept)
    /\ [][ /\ (lastOutcome' = "running" /\ lastOutcome # "running")
                => (taskPc = "check" /\ will_expired /\ taskPc' = "issue")
           /\ (taskPc = "issue" /\ taskPc' # "issue") => taskPc' = "sleep"
           /\ (taskPc' = "check" /\ taskPc # "check") => taskPc = "upgrade"
           /\ (taskPc' = "upgrade" /\ taskPc # "upgrade")
                => taskPc \in {"unspawned", "sleep"} ]_vars

\* C15 witness: after an attempt that succeeded the loop has slept, the
\* certificate has come within the threshold, and the loop stands at a
\* check that will start the next attempt.
C15_Witness ==
    taskPc = "check" /\ checked /\ slept /\ lastOutcome = "ok" /\ will_expired

\* C16: while the renewal task is suspended in its sleep it owns no strong
\* reference to the store, so once the listener (and every handshake
\* holding the server config) is gone during a sleep, the store has no
\* strong owner left.
C16_WeakOnlyWhileAsleep ==
    (taskPc = "sleep" /\ OtherOwners = 0) => StrongCount = 0

\* C17: will_expired is true while the store holds no identity, so the
\* first check over an empty store starts an attempt; the set made at
\* CertificateReady leaves will_expired false; it becomes true again only
\* by the stored certificate coming within the threshold; an attempt is
\* started only when it is true, and a check that finds it false goes to
\* the sleep without an attempt.
C17_ExpiryDrivesAttempts ==
    /\ [](cert = NoIdentity => will_expired)
    /\ [][ /\ (taskPc = "check" /\ ~checked /\ cert = NoIdentity /\ taskPc' # "check")
                => (taskPc' = "issue" /\ iss' = "Start")
           /\ (taskPc = "issue" /\ iss = "CertificateReady" /\ iss' # iss)
                => (cert' # NoIdentity /\ ~will_expired')
           /\ (will_expired' /\ ~will_expired)
                => (cert' = cert /\ cert # NoIdentity /\ certExpiring')
           /\ (lastOutcome' = "running" /\ lastOutcome # "running") => will_expired
           /\ (taskPc = "check" /\ ~will_expired /\ taskPc' # "check")
                => (taskPc' = "sleep" /\ iss' = "Idle" /\ lastOutcome' = lastOutcome)
         ]_vars

\* C17 witness: after a successful attempt the loop has slept and stands
\* at a check that finds the stored certificate still fresh.
C17_Witness ==
    /\ taskPc = "check" /\ slept /\ lastOutcome = "ok"
    /\ cert = NextIdentity(attemptStartCert) /\ ~will_expired

\* C18: no read, write or flush of an OpensslStream is handed to the inner
\* stream before its handshake is over; until then such a call is answered
\* pending or with the handshake error; the ready flag is set only with
\* the handshake over and, once set, stays set; and the handshake error is
\* answered only to calls on the stream whose own handshake failed.
C18_IoWaitsForHandshake ==
    /\ [](\A s \in Streams : early_ops[s] \cap IoCalls = {})
    /\ [](\A s \in Streams :
            (inner_stream[s] # "established" /\ last_poll[s][1] \in IoCalls)
                => last_poll[s][2] \in {"pending", "error"})
    /\ [](\A s \in Streams : is_ready[s] => inner_stream[s] = "established")
    /\ [](\A s \in Streams :
            last_poll[s][2] = "error"
                => (peer[s] \in BadFlights /\ inner_stream[s] = "failed"))
    /\ [][\A s \in Streams : is_ready[s] => is_ready'[s]]_vars

\* C18 witness: a read on the first stream was answered with its handshake
\* error, while the second stream, after its own handshake, had a write
\* handed to the inner stream.
C18_Witness ==
    /\ last_poll[1] = <<"read", "error">> /\ ~is_ready[1]
    /\ last_poll[2] = <<"write", "inner">> /\ is_ready[2]
    /\ early_ops[2] = {}

\* The responder of the configured challenge type holds the material of
\* the current order.
MaterialInstalled ==
    IF challenge_type = "Http01"
    THEN /\ orderToken \in DOMAIN keys_for_http01
         /\ keys_for_http01[orderToken] = KeyAuth(orderToken)
    ELSE acme_keys = domains /\ domains # {}

\* C19: within an attempt, the challenge material is in its responder from
\* before readiness is signalled until validation is over; Finalizing (the
\* signing request) is entered only from Validating, CertificateReady only
\* from Finalizing; the store is set only in CertificateReady; validation
\* ends in Finalizing or in Errored, and an attempt in Errored only
\* returns its failure to the loop, without starting again.
C19_AttemptOrder ==
    /\ []((taskPc = "issue" /\ iss \in {"ChallengeSubmitted", "Validating"})
            => MaterialInstalled)
    /\ [][ /\ (iss' = "Validating" /\ iss # "Validating")
                => (iss = "ChallengeSubmitted" /\ MaterialInstalled)
           /\ (iss' = "Finalizing" /\ iss # "Finalizing") => iss = "Validating"
           /\ (iss' = "CertificateReady" /\ iss # "CertificateReady")
                => iss = "Finalizing"
           /\ (cert' # cert /\ taskPc = "issue") => iss = "CertificateReady"
           /\ (iss = "Validating" /\ iss' # iss) => iss' \in {"Finalizing", "Errored"}
           /\ (iss = "Errored" /\ iss' # iss)
                => (iss' = "Idle" /\ lastOutcome' = "failed" /\ cert' = cert) ]_vars

\* C19 witness: a TLS-ALPN-01 order is Validating with the challenge
\* certificates of its domains installed.
C19_Witness ==
    /\ taskPc = "issue" /\ iss = "Validating" /\ challenge_type = "TlsAlpn01"
    /\ acme_keys = domains /\ domains # {}

\* C20: the step of accept that consumes an item from which no acceptor
\* can be built leaves the current acceptor as it was, returns nothing and
\* stays in the select; the current acceptor is therefore always the one
\* of the last valid item consumed (none if there was none), and a stream
\* is handshaked with the context of the last valid item consumed before
\* its connection was accepted.
C20_InvalidItemSkipped ==
    /\ [](current_tls_acceptor = lastApplied)
    /\ [](\A c \in Conns :
            conns[c].st \in {"lazy", "ready"}
                => /\ conns[c].acceptor = conns[c].applied
                   /\ conns[c].st = "ready" => conns[c].hs_ctx = conns[c].applied)
    /\ [][(acceptPc = "select" /\ config_stream # <<>>
             /\ ~Head(config_stream).valid /\ config_stream' = Tail(config_stream))
            => /\ current_tls_acceptor' = current_tls_acceptor
               /\ acceptPc' = "select"
               /\ lastResult' = lastResult
               /\ conns' = conns]_vars

\* C20 witness: the first connection came before any item; item 1 was
\* valid and item 2 was not; both were consumed, and the connection that
\* the last accept returned, after that, was handshaked with the context
\* of item 1.
C20_Witness ==
    /\ config_sent = 2 /\ config_stream = <<>>
    /\ lastApplied = 1 /\ current_tls_acceptor = 1
    /\ acceptPc = "idle" /\ lastResult = "stream"
    /\ conns[1].st = "no_config"
    /\ conns[2].st = "ready" /\ conns[2].applied = 1 /\ conns[2].hs_ctx = 1

\* C21: once the configuration stream has ended and every item of it has
\* been consumed, accept does not panic, and the acceptor it accepts with
\* is still the one of the last valid item.
C21_EndedStreamKeepsAccepting ==
    (config_ended /\ config_stream = <<>>)
        => (acceptPc # "panic" /\ current_tls_acceptor = lastApplied)

\* C22: a listener that build produced advertises acme-tls/1 exactly when
\* its challenge type is TLS-ALPN-01 and advertises exactly h2 and
\* http/1.1 under HTTP-01; its challenge type is one of the two, a
\* handshake negotiates acme-tls/1 only under TLS-ALPN-01, and only the
\* responder of the configured type ever holds challenge material.
C22_AlpnFollowsChallengeType ==
    listener # "none" =>
        /\ challenge_type \in {"Http01", "TlsAlpn01"}
        /\ (ACME_TLS_ALPN_NAME \in AlpnProtocols) <=> (challenge_type = "TlsAlpn01")
        /\ challenge_type = "Http01" => AlpnProtocols = {"h2", "http/1.1"}
        /\ (hsPc \in {"answered", "done"} /\ Negotiated(hsAlpn) = ACME_TLS_ALPN_NAME)
              => challenge_type = "TlsAlpn01"
        /\ challenge_type = "Http01" => acme_keys = {}
        /\ challenge_type = "TlsAlpn01" => keys_for_http01 = EmptyMap

\* C22 witness: under HTTP-01 a client offered acme-tls/1, the listener
\* did not negotiate it, and the handshake was answered from the store.
C22_Witness ==
    /\ listener = "alive" /\ challenge_type = "Http01"
    /\ hsPc = "done" /\ hsAlpn = ACME_TLS_ALPN_NAME
    /\ Negotiated(hsAlpn) = "none"
    /\ AlpnProtocols = {"h2", "http/1.1"}
====
